---- MODULE Spec2Model ----
(***************************************************************************)
(* Covariance-matrix auto-selection (cobaya/cosmo_input/autoselect_covmat):*)
(* the candidate-database cache (in-process mapping + pickled file keyed by *)
(* the md5 of the directory list) and the staged best-match ranking.       *)
(*                                                                         *)
(* Strings are sequences of one-character strings so that endswith,        *)
(* replace, split and the regular-expression search are computed as the    *)
(* code computes them.                                                     *)
(***************************************************************************)
EXTENDS Integers, Sequences, FiniteSets, TLC

VARIABLES
    disk,                     \* directory -> [exists, files]: files in os.listdir order
    cache_file,               \* fingerprint -> [exists, data]: the pickled file on disk
    loaded_covmats_database,  \* process -> fingerprint -> <<>> (no key) or <<list>>
    pc,                       \* process -> position in get_covmat_database_at_paths
    call,                     \* process -> arguments of the call in progress
    covmat_database,          \* process -> local list built or loaded by the call
    fpos,                     \* process -> offset of its open "wb" file object
    ret,                      \* process -> what the last call returned / raised
    prev,                     \* the last completed best-match call and its result
    watch,                    \* the file deletion being followed, if any
    ndisk,                    \* number of directory changes made so far
    ncalls,                   \* number of calls started so far
    score_call,               \* SpecScore: one application of get_best_score
    select_call               \* SpecSelect: one application of the ranking stages

vars == <<disk, cache_file, loaded_covmats_database, pc, call, covmat_database,
          fpos, ret, prev, watch, ndisk, ncalls, score_call, select_call>>

(***************************************************************************)
(* Bounds of the model                                                     *)
(***************************************************************************)
MaxCands == 3       \* longest candidate sequence given to get_best_score
MaxScore == 2       \* scores range over 0..MaxScore in SpecScore
MaxDb == 3         \* longest database drawn in SpecSelect
MaxDiskOps == 2     \* directory changes (file created / deleted) per behaviour
MaxCalls == 2       \* calls started per behaviour of the sequential machine

(***************************************************************************)
(* Strings                                                                 *)
(***************************************************************************)
Range(s) == {s[i] : i \in DOMAIN s}

IsSpace(c) == c \in {" ", "\t", "\n"}

\* str.endswith
endswith(s, suffix) ==
    /\ Len(s) >= Len(suffix)
    /\ SubSeq(s, Len(s) - Len(suffix) + 1, Len(s)) = suffix

\* str.startswith
startswith(s, prefix) ==
    /\ Len(s) >= Len(prefix)
    /\ SubSeq(s, 1, Len(prefix)) = prefix

\* str.replace(old, new) for single characters
replace(s, old, new) == [i \in DOMAIN s |-> IF s[i] = old THEN new ELSE s[i]]

RECURSIVE lstrip_space(_)
lstrip_space(s) ==
    IF s # <<>> /\ IsSpace(Head(s)) THEN lstrip_space(Tail(s)) ELSE s

RECURSIVE rstrip_space(_)
rstrip_space(s) ==
    IF s # <<>> /\ IsSpace(s[Len(s)]) THEN rstrip_space(SubSeq(s, 1, Len(s) - 1))
    ELSE s

\* str.strip()
strip(s) == rstrip_space(lstrip_space(s))

\* str.lstrip(ch)
RECURSIVE lstrip(_, _)
lstrip(s, ch) == IF s # <<>> /\ Head(s) = ch THEN lstrip(Tail(s), ch) ELSE s

RECURSIVE SplitAcc(_, _, _)
SplitAcc(s, cur, acc) ==
    IF s = <<>> THEN (IF cur = <<>> THEN acc ELSE Append(acc, cur))
    ELSE IF IsSpace(Head(s))
         THEN SplitAcc(Tail(s), <<>>, IF cur = <<>> THEN acc ELSE Append(acc, cur))
         ELSE SplitAcc(Tail(s), Append(cur, Head(s)), acc)

\* str.split(): the whitespace-delimited tokens
split(s) == SplitAcc(s, <<>>, <<>>)

\* re.compile(r"[_\.]" + re.escape(like) + r"[_\.]").search(name)
re_search(like, name) ==
    \E i \in 1..Len(name) :
        /\ i + Len(like) + 1 <= Len(name)
        /\ name[i] \in {"_", "."}
        /\ SubSeq(name, i + 1, i + Len(like)) = like
        /\ name[i + Len(like) + 1] \in {"_", "."}

(***************************************************************************)
(* get_best_score                                                          *)
(***************************************************************************)
None == <<>>
Some(x) == <<x>>

RECURSIVE SeqMax(_)
SeqMax(s) == IF Len(s) = 1 THEN s[1]
             ELSE LET m == SeqMax(Tail(s)) IN IF s[1] >= m THEN s[1] ELSE m

\* the subsequence of s at the indices i with keep[i]
RECURSIVE Filter(_, _)
Filter(s, keep) ==
    IF s = <<>> THEN <<>>
    ELSE LET rest == Filter(Tail(s), Tail(keep))
         IN IF Head(keep) THEN <<Head(s)>> \o rest ELSE rest

Returned(v) == [exc |-> "none", val |-> v]
Raised(e) == [exc |-> e, val |-> <<>>]

\* get_best_score with the rejection test written as a strict comparison
get_best_score_strict(covmats, score_func, min_score) ==
    LET scores == [i \in 1..Len(covmats) |-> score_func[covmats[i]]] IN
    IF Len(scores) = 0 THEN Raised("ValueError")
    ELSE IF min_score # None /\ SeqMax(scores) < min_score[1] THEN Returned(<<>>)
    ELSE Returned(Filter(covmats, [i \in 1..Len(covmats) |->
                                       scores[i] = SeqMax(scores)]))

\* get_best_score keeping only the first candidate with the maximal score
get_best_score_first(covmats, score_func, min_score) ==
    LET scores == [i \in 1..Len(covmats) |-> score_func[covmats[i]]] IN
    IF Len(scores) = 0 THEN Raised("ValueError")
    ELSE IF min_score # None /\ SeqMax(scores) <= min_score[1] THEN Returned(<<>>)
    ELSE LET first == CHOOSE i \in DOMAIN scores :
                          /\ scores[i] = SeqMax(scores)
                          /\ \A j \in 1..(i - 1) : scores[j] # SeqMax(scores)
         IN Returned(<<covmats[first]>>)

\* get_best_score with an absent min_score taken as a minimum of 0
get_best_score_default_zero(covmats, score_func, min_score) ==
    LET scores == [i \in 1..Len(covmats) |-> score_func[covmats[i]]]
        least == IF min_score = None THEN 0 ELSE min_score[1]
    IN IF Len(scores) = 0 THEN Raised("ValueError")
       ELSE IF SeqMax(scores) <= least THEN Returned(<<>>)
       ELSE Returned(Filter(covmats, [i \in 1..Len(covmats) |->
                                          scores[i] = SeqMax(scores)]))

\* np.max of a zero-size array raises ValueError
get_best_score(covmats, score_func, min_score) ==
    LET scores == [i \in 1..Len(covmats) |-> score_func[covmats[i]]] IN
    IF min_score # None /\ Len(scores) = 0 THEN Raised("ValueError")
    ELSE IF min_score # None /\ SeqMax(scores) <= min_score[1] THEN Returned(<<>>)
    ELSE IF Len(scores) = 0 THEN Raised("ValueError")
    ELSE Returned(Filter(covmats, [i \in 1..Len(covmats) |->
                                       scores[i] = SeqMax(scores)]))

(***************************************************************************)
(* Files, directories and candidate records                                *)
(***************************************************************************)
Extension_covmat == <<".", "c", "o", "v", "m", "a", "t">>

\* a directory entry: its name and the first line read from it (readable =
\* FALSE: open() or the utf-8 decoding of the first line fails)
File(name, readable, line) == [name |-> name, readable |-> readable, line |-> line]

F_lowl   == File(<<"p", "_", "l", "o">> \o Extension_covmat, TRUE,
                 <<"#", " ", "a", " ", "b", "\n">>)
F_tie    == File(<<"q", "_", "l", "o">> \o Extension_covmat, TRUE,
                 <<" ", "#", "a", " ", " ", "b", "\n">>)
F_lowl_x == File(<<"p", "_", "l", "o", "_", "h", "i">> \o Extension_covmat, TRUE,
                 <<"#", " ", "a", " ", "b", " ", "c", "\n">>)
F_notes  == File(<<"n", ".", "t", "x", "t">>, TRUE, <<"#", " ", "a", "\n">>)
F_bad    == File(<<"b", "a", "d">> \o Extension_covmat, TRUE, <<"1", " ", "2", "\n">>)
F_subdir == File(<<"s", "u", "b">>, FALSE, <<>>)

Dirs == {"d1", "d2"}

\* the files that may appear in each directory
FilesOf(d) == IF d = "d1" THEN {F_lowl, F_tie, F_notes, F_bad}
              ELSE {F_lowl_x, F_subdir}

\* the directory lists passed as installed_folders / covmat_dirs
DirLists == {<<"d1">>, <<"d1", "d2">>}

\* hashlib.md5(str(installed_folders)).hexdigest(): a digest of the ordered list
Hash(installed_folders) == <<"md5", installed_folders>>

Hashes == {Hash(l) : l \in DirLists}

Covmat(folder, name, params) == [folder |-> folder, name |-> name, params |-> params]

\* lines 72-81: one directory entry; <<>> when the entry is skipped
ParseEntry(folder_full, f) ==
    IF ~f.readable THEN <<>>
    ELSE LET header == f.line IN
         IF ~startswith(strip(header), <<"#">>) THEN <<>>
         ELSE <<Covmat(folder_full, f.name, split(lstrip(strip(header), "#")))>>

RECURSIVE ParseEntries(_, _)
ParseEntries(folder_full, files) ==
    IF files = <<>> THEN <<>>
    ELSE ParseEntry(folder_full, Head(files)) \o ParseEntries(folder_full, Tail(files))

\* lines 69-81: the rebuild; os.listdir of a missing directory raises
RECURSIVE ScanFolders(_, _)
ScanFolders(dsk, installed_folders) ==
    IF installed_folders = <<>> THEN Returned(<<>>)
    ELSE LET folder_full == Head(installed_folders) IN
         IF ~dsk[folder_full].exists THEN Raised("FileNotFoundError")
         ELSE LET rest == ScanFolders(dsk, Tail(installed_folders)) IN
              IF rest.exc # "none" THEN rest
              ELSE Returned(ParseEntries(folder_full, dsk[folder_full].files)
                            \o rest.val)

\* lines 56-59: the number of files ending in Extension.covmat
RECURSIVE CountCovmatFiles(_, _)
CountCovmatFiles(dsk, installed_folders) ==
    IF installed_folders = <<>> THEN Returned(0)
    ELSE LET folder == Head(installed_folders) IN
         IF ~dsk[folder].exists THEN Raised("FileNotFoundError")
         ELSE LET rest == CountCovmatFiles(dsk, Tail(installed_folders)) IN
              IF rest.exc # "none" THEN rest
              ELSE [exc |-> "none",
                    val |-> rest.val + Cardinality({i \in DOMAIN dsk[folder].files :
                               endswith(dsk[folder].files[i].name, Extension_covmat)})]

(***************************************************************************)
(* The pickled file: a framed byte stream written at a file offset         *)
(***************************************************************************)
NoCovmat == Covmat("", <<>>, <<>>)
Unit(op, rec) == [op |-> op, rec |-> rec]
PROTO == Unit("PROTO", NoCovmat)
STOP == Unit("STOP", NoCovmat)
HOLE == Unit("HOLE", NoCovmat)

\* pickle.dumps(covmat_database)
pickle_dumps(db) == <<PROTO>> \o [i \in DOMAIN db |-> Unit("REC", db[i])] \o <<STOP>>

\* pickle_load returning the records read so far when the stream ends early
pickle_load_lenient(data) ==
    IF data = <<>> THEN Raised("EOFError")
    ELSE IF data[1] # PROTO THEN Raised("UnpicklingError")
    ELSE LET stops == {i \in DOMAIN data : data[i].op # "REC" /\ i > 1}
             stop == IF stops = {} THEN Len(data) + 1
                     ELSE CHOOSE i \in stops : \A j \in stops : i <= j
         IN Returned([j \in 1..(stop - 2) |-> data[j + 1].rec])

\* pickle.load(f): reads up to the first STOP; anything malformed raises
pickle_load(data) ==
    IF data = <<>> THEN Raised("EOFError")
    ELSE IF data[1] # PROTO THEN Raised("UnpicklingError")
    ELSE IF \A i \in DOMAIN data : data[i] # STOP THEN Raised("EOFError")
    ELSE LET stop == CHOOSE i \in DOMAIN data :
                        data[i] = STOP /\ \A j \in 1..(i - 1) : data[j] # STOP
         IN IF \E j \in 2..(stop - 1) : data[j].op # "REC"
            THEN Raised("UnpicklingError")
            ELSE Returned([j \in 1..(stop - 2) |-> data[j + 1].rec])

\* f.write(chunk) at offset pos of a file holding data (a gap reads as zeros)
WriteAt(data, pos, chunk) ==
    LET n == IF pos + Len(chunk) > Len(data) THEN pos + Len(chunk) ELSE Len(data)
    IN [i \in 1..n |-> IF i > pos /\ i <= pos + Len(chunk) THEN chunk[i - pos]
                       ELSE IF i <= Len(data) THEN data[i] ELSE HOLE]

(***************************************************************************)
(* get_best_covmat_ext: the ranking stages                                 *)
(*                                                                         *)
(* A candidate list holds references to the dicts of the database list:    *)
(* here the indices 1..Len(covmats_database) into it.                      *)
(***************************************************************************)
\* lines 131-133: every target parameter and its renames
params_renames_of(params_info) ==
    UNION {{q} \cup Range(params_info[q]) : q \in DOMAIN params_info}

\* lines 134-135: every target likelihood and its aliases
likes_renames_of(likelihoods_info) ==
    UNION {{like} \cup Range(likelihoods_info[like]) : like \in DOMAIN likelihoods_info}

\* score_params counting every declared parameter, in the target set or not
score_params_count_all(covmat, params_renames) ==
    Cardinality(Range(covmat.params))

score_params(covmat, params_renames) ==
    Cardinality(Range(covmat.params) \cap params_renames)

score_likes(covmat, likes_renames) ==
    Cardinality({like \in likes_renames : re_search(like, covmat.name)})

score_simpler_params(covmat) == 0 - Len(covmat.params)

\* score_simpler_name with only '_' turned into a space
score_simpler_name_no_dash(covmat) ==
    0 - Len(split(replace(covmat.name, "_", " ")))

score_simpler_name(covmat) ==
    0 - Len(split(replace(replace(covmat.name, "_", " "), "-", " ")))

\* np.random.default_rng(random_state).choice(range(n)) for an integer seed:
\* a fixed function of the seed and n with values in 0..n-1
rng_choice(random_state, n) == (random_state * 3 + 1) % n

\* copy losing the declared parameters of the record
copy_without_params(covmat) == Covmat(covmat.folder, covmat.name, <<>>)

\* dict.copy(): a new dict holding the same values (the same list object)
copy(covmat) == Covmat(covmat.folder, covmat.name, covmat.params)

Refs(covmats_database) == [i \in 1..Len(covmats_database) |-> i]

Stages(exc, val, origin, s1, s2, s3, s4) ==
    [exc |-> exc, val |-> val, origin |-> origin,
     best_p |-> s1, best_p_l |-> s2, best_p_l_sp |-> s3, best_p_l_sp_sn |-> s4]

\* lines 127-183, after the database is loaded
get_best_covmat_ext(covmats_database, params_info, likelihoods_info, random_state) ==
    LET db == covmats_database
        all == 1..Len(db)
        params_renames == params_renames_of(params_info)
        likes_renames == likes_renames_of(likelihoods_info)
    IN
    IF db = <<>> THEN Stages("none", None, 0, <<>>, <<>>, <<>>, <<>>)
    ELSE
    LET best_p == get_best_score(Refs(db),
                      [i \in all |-> score_params(db[i], params_renames)], Some(0))
    IN
    IF best_p.val = <<>> THEN Stages(best_p.exc, None, 0, <<>>, <<>>, <<>>, <<>>)
    ELSE
    LET best_p_l == get_best_score(best_p.val,
                        [i \in all |-> score_likes(db[i], likes_renames)], None)
        best_p_l_sp == get_best_score(best_p_l.val,
                        [i \in all |-> score_simpler_params(db[i])], None)
        best_p_l_sp_sn == get_best_score(best_p_l_sp.val,
                        [i \in all |-> score_simpler_name(db[i])], None)
    IN
    IF best_p_l.exc # "none" \/ best_p_l_sp.exc # "none" \/ best_p_l_sp_sn.exc # "none"
    THEN Stages("ValueError", None, 0, best_p.val, best_p_l.val, best_p_l_sp.val, <<>>)
    ELSE
    LET final == best_p_l_sp_sn.val
        origin == final[rng_choice(random_state, Len(final)) + 1]
    IN Stages("none", Some(copy(db[origin])), origin,
              best_p.val, best_p_l.val, best_p_l_sp.val, final)

(***************************************************************************)
(* State of the processes                                                  *)
(***************************************************************************)
Procs == {1, 2}

A == <<"a">>
B == <<"b">>
C == <<"c">>
X == <<"x">>
Z == <<"z">>
LO == <<"l", "o">>
HI == <<"h", "i">>

\* the integer seeds passed as random_state
Seeds == {0, 1}

\* no directory holds more entries than the files that may appear in it
MaxListing == Cardinality(FilesOf("d1"))

NoQuery == [params_info |-> <<>>, likelihoods_info |-> <<>>, random_state |-> 0]

NoCall == [kind |-> "none", dirs |-> <<>>, cached |-> FALSE, query |-> NoQuery,
           watched |-> FALSE]

\* exc: "unset" before any call has completed; via: how the database was obtained
NoRet == [exc |-> "unset", val |-> <<>>, via |-> "none", origin |-> 0,
          shared |-> FALSE, watched |-> FALSE]

NoPrev == [valid |-> FALSE, dirs |-> <<>>, cached |-> FALSE, query |-> NoQuery,
           exc |-> "unset", val |-> <<>>]

NoWatch == [state |-> "off", dirs |-> <<>>, folder |-> "", name |-> <<>>]

NoScoreCall == [covmats |-> <<>>, score_func |-> <<>>, min_score |-> None, out |-> None]

NoSelectCall == [db |-> <<>>, query |-> NoQuery, out |-> None]

\* no process has started and nothing is cached
ProcessesFresh ==
    /\ loaded_covmats_database = [p \in Procs |-> [h \in Hashes |-> None]]
    /\ pc = [p \in Procs |-> "idle"]
    /\ call = [p \in Procs |-> NoCall]
    /\ covmat_database = [p \in Procs |-> <<>>]
    /\ fpos = [p \in Procs |-> 0]
    /\ ret = [p \in Procs |-> NoRet]
    /\ prev = NoPrev
    /\ watch = NoWatch
    /\ ndisk = 0
    /\ ncalls = 0

MachineOff ==
    /\ disk = [d \in Dirs |-> [exists |-> FALSE, files |-> <<>>]]
    /\ cache_file = [h \in Hashes |-> [exists |-> FALSE, data |-> <<>>]]
    /\ ProcessesFresh

machine_vars == <<disk, cache_file, loaded_covmats_database, pc, call,
                  covmat_database, fpos, ret, prev, watch, ndisk, ncalls>>

(***************************************************************************)
(* get_covmat_database_at_paths and get_best_covmat_ext as steps of a      *)
(* process, and the environment (files created and deleted, the process    *)
(* ending and a new one starting, the caller changing a returned record)   *)
(***************************************************************************)
\* the queries made of the running processes
MachineQueries ==
    {[params_info |-> (A :> <<>>) @@ (B :> <<>>),
      likelihoods_info |-> (LO :> <<>>), random_state |-> s] : s \in Seeds}

\* the (folder, name) of every file with the matrix extension now on disk
MatrixFilesOnDisk(dsk, dirs) ==
    UNION {{<<d, dsk[d].files[i].name>> :
               i \in {j \in DOMAIN dsk[d].files :
                          endswith(dsk[d].files[j].name, Extension_covmat)}} :
           d \in {x \in Range(dirs) : dsk[x].exists}}

\* TryCachedFile without the file-count assertion of line 60
TryCachedFile_unchecked(dsk, file, installed_folders) ==
    IF ~file.exists THEN Raised("FileNotFoundError") ELSE pickle_load(file.data)

\* lines 52-63: the persisted file is usable; anything raised sends the caller
\* to the rebuild (line 64)
TryCachedFile(dsk, file, installed_folders) ==
    IF ~file.exists THEN Raised("FileNotFoundError")
    ELSE LET loaded == pickle_load(file.data) IN
         IF loaded.exc # "none" THEN loaded
         ELSE LET num_files == CountCovmatFiles(dsk, installed_folders) IN
              IF num_files.exc # "none" THEN Raised(num_files.exc)
              ELSE IF num_files.val # Len(loaded.val) THEN Raised("AssertionError")
              ELSE loaded

\* line 50: the walrus test, a missing key and an empty list both fail it
MemoryHit(entry) == entry # None /\ entry[1] # <<>>

\* the call of process p returns database db, obtained via `via`, leaving `file`
\* as the persisted file of its fingerprint; for a best-match call lines 127-183
\* run on db
Complete(p, db, via, file) ==
    LET c == call[p]
        q == c.query
        s == get_best_covmat_ext(db, q.params_info, q.likelihoods_info, q.random_state)
        checked == c.kind = "load" /\ c.watched /\ watch.state = "deleted"
        stored == /\ c.kind = "load" /\ c.cached
                  /\ file.exists
                  /\ file.data = pickle_dumps(db)
                  /\ {<<db[i].folder, db[i].name>> : i \in DOMAIN db}
                       = MatrixFilesOnDisk(disk, c.dirs)
    IN
    /\ pc' = [pc EXCEPT ![p] = "idle"]
    /\ ret' = [ret EXCEPT ![p] =
          IF c.kind = "load"
          THEN [exc |-> "none", val |-> db, via |-> via, origin |-> 0,
                shared |-> FALSE, watched |-> checked]
          ELSE [exc |-> s.exc, val |-> s.val, via |-> via, origin |-> s.origin,
                shared |-> c.cached /\ s.val # None, watched |-> FALSE]]
    /\ prev' = IF c.kind = "best"
               THEN [valid |-> TRUE, dirs |-> c.dirs, cached |-> c.cached,
                     query |-> q, exc |-> s.exc, val |-> s.val]
               ELSE prev
    /\ watch' = IF checked THEN [watch EXCEPT !.state = "checked"]
                ELSE IF stored THEN [state |-> "stored", dirs |-> c.dirs,
                                     folder |-> "", name |-> <<>>]
                ELSE watch
    /\ covmat_database' = [covmat_database EXCEPT ![p] = <<>>]
    /\ fpos' = [fpos EXCEPT ![p] = 0]

\* a caller invokes get_covmat_database_at_paths (kind "load") or
\* get_best_covmat_ext (kind "best")
Call(p, kind, dirs, cached, query) ==
    /\ pc[p] = "idle"
    /\ ncalls < MaxCalls
    /\ ncalls' = ncalls + 1
    /\ pc' = [pc EXCEPT ![p] = "lookup"]
    /\ call' = [call EXCEPT ![p] =
          [kind |-> kind, dirs |-> dirs, cached |-> cached, query |-> query,
           watched |-> cached /\ watch.state = "deleted" /\ watch.dirs = dirs]]
    /\ ret' = [ret EXCEPT ![p] = NoRet]
    /\ UNCHANGED <<disk, cache_file, loaded_covmats_database, covmat_database, fpos,
                   prev, watch, ndisk, score_call, select_call>>

\* Lookup consulting the in-process mapping whether or not caching is enabled
Lookup_ignoring_cached(p) ==
    /\ pc[p] = "lookup"
    /\ LET entry == loaded_covmats_database[p][Hash(call[p].dirs)] IN
       IF MemoryHit(entry)
       THEN Complete(p, entry[1], "memory", cache_file[Hash(call[p].dirs)])
       ELSE /\ pc' = [pc EXCEPT ![p] = IF call[p].cached THEN "read" ELSE "scan"]
            /\ UNCHANGED <<ret, prev, watch, covmat_database, fpos>>
    /\ UNCHANGED <<disk, cache_file, loaded_covmats_database, call, ndisk, ncalls,
                   score_call, select_call>>

\* lines 46-51
Lookup(p) ==
    /\ pc[p] = "lookup"
    /\ LET entry == loaded_covmats_database[p][Hash(call[p].dirs)] IN
       IF call[p].cached /\ MemoryHit(entry)
       THEN Complete(p, entry[1], "memory", cache_file[Hash(call[p].dirs)])
       ELSE /\ pc' = [pc EXCEPT ![p] = IF call[p].cached THEN "read" ELSE "scan"]
            /\ UNCHANGED <<ret, prev, watch, covmat_database, fpos>>
    /\ UNCHANGED <<disk, cache_file, loaded_covmats_database, call, ndisk, ncalls,
                   score_call, select_call>>

\* lines 52-67
ReadCache(p) ==
    /\ pc[p] = "read"
    /\ LET h == Hash(call[p].dirs)
           got == TryCachedFile(disk, cache_file[h], call[p].dirs)
       IN IF got.exc = "none"
          THEN /\ loaded_covmats_database' =
                     [loaded_covmats_database EXCEPT ![p][h] = Some(got.val)]
               /\ cache_file' = cache_file
               /\ Complete(p, got.val, "file", cache_file[h])
          ELSE /\ pc' = [pc EXCEPT ![p] = "scan"]
               /\ UNCHANGED <<cache_file, loaded_covmats_database, ret, prev, watch,
                              covmat_database, fpos>>
    /\ UNCHANGED <<disk, call, ndisk, ncalls, score_call, select_call>>

\* lines 69-81 (and 86 when caching is disabled); an exception of os.listdir
\* leaves the function
Scan(p) ==
    /\ pc[p] = "scan"
    /\ LET built == ScanFolders(disk, call[p].dirs) IN
       IF built.exc # "none"
       THEN /\ pc' = [pc EXCEPT ![p] = "idle"]
            /\ ret' = [ret EXCEPT ![p] = [NoRet EXCEPT !.exc = built.exc,
                                                       !.via = "rebuild"]]
            /\ UNCHANGED <<prev, watch, covmat_database, fpos, cache_file>>
       ELSE IF call[p].cached
       THEN /\ covmat_database' = [covmat_database EXCEPT ![p] = built.val]
            /\ pc' = [pc EXCEPT ![p] = "open"]
            /\ UNCHANGED <<ret, prev, watch, fpos, cache_file>>
       ELSE /\ cache_file' = cache_file
            /\ Complete(p, built.val, "rebuild", cache_file[Hash(call[p].dirs)])
    /\ UNCHANGED <<disk, loaded_covmats_database, call, ndisk, ncalls,
                   score_call, select_call>>

\* line 83: open(..., "wb") creates or truncates the file
OpenWrite(p) ==
    /\ pc[p] = "open"
    /\ cache_file' = [cache_file EXCEPT ![Hash(call[p].dirs)] =
                          [exists |-> TRUE, data |-> <<>>]]
    /\ fpos' = [fpos EXCEPT ![p] = 0]
    /\ pc' = [pc EXCEPT ![p] = "dump"]
    /\ UNCHANGED <<disk, loaded_covmats_database, call, covmat_database, ret, prev,
                   watch, ndisk, ncalls, score_call, select_call>>

\* line 84: pickle.dump writes the stream in one or more chunks at the offset of
\* this file object; after the last one the file is closed and lines 85-86 run
Dump(p) ==
    /\ pc[p] = "dump"
    /\ LET h == Hash(call[p].dirs)
           bytes == pickle_dumps(covmat_database[p])
       IN \E k \in (fpos[p] + 1)..Len(bytes) :
            /\ cache_file' = [cache_file EXCEPT ![h].data =
                   WriteAt(cache_file[h].data, fpos[p], SubSeq(bytes, fpos[p] + 1, k))]
            /\ IF k < Len(bytes)
               THEN /\ fpos' = [fpos EXCEPT ![p] = k]
                    /\ UNCHANGED <<pc, ret, prev, watch, covmat_database,
                                   loaded_covmats_database>>
               ELSE /\ loaded_covmats_database' =
                          [loaded_covmats_database EXCEPT ![p][h] =
                               Some(covmat_database[p])]
                    /\ Complete(p, covmat_database[p], "rebuild", cache_file'[h])
    /\ UNCHANGED <<disk, call, ndisk, ncalls, score_call, select_call>>

\* the caller assigns a new list to a field of the returned dict (as line 115 does)
ReplaceField(p) ==
    /\ pc[p] = "idle"
    /\ ret[p].shared
    /\ ret' = [ret EXCEPT ![p].val = Some([ret[p].val[1] EXCEPT !.params = <<Z>>]),
                          ![p].shared = FALSE]
    /\ UNCHANGED <<disk, cache_file, loaded_covmats_database, pc, call,
                   covmat_database, fpos, prev, watch, ndisk, ncalls,
                   score_call, select_call>>

\* the caller changes the returned dict's "params" list in place (params.pop()):
\* the list object is the one the cached database's dict holds
MutateParams(p) ==
    /\ pc[p] = "idle"
    /\ ret[p].shared
    /\ ret[p].val[1].params # <<>>
    /\ LET h == Hash(call[p].dirs)
           popped == SubSeq(ret[p].val[1].params, 1, Len(ret[p].val[1].params) - 1)
       IN /\ ret' = [ret EXCEPT ![p].val = Some([ret[p].val[1] EXCEPT !.params = popped])]
          /\ loaded_covmats_database' =
                 [loaded_covmats_database EXCEPT
                      ![p][h] = Some([loaded_covmats_database[p][h][1] EXCEPT
                                          ![ret[p].origin].params = popped])]
    /\ UNCHANGED <<disk, cache_file, pc, call, covmat_database, fpos, prev, watch,
                   ndisk, ncalls, score_call, select_call>>

\* the process ends (between calls, or killed while it writes the file) and a new
\* one starts: the in-process mapping is empty again, the files stay as they are
Restart(p) ==
    /\ \/ pc[p] = "dump"
       \/ pc[p] = "idle" /\ ret[p] # NoRet
       \/ pc[p] = "idle" /\ loaded_covmats_database[p] # [h \in Hashes |-> None]
    /\ loaded_covmats_database' = [loaded_covmats_database EXCEPT
                                       ![p] = [h \in Hashes |-> None]]
    /\ pc' = [pc EXCEPT ![p] = "idle"]
    /\ call' = [call EXCEPT ![p] = NoCall]
    /\ covmat_database' = [covmat_database EXCEPT ![p] = <<>>]
    /\ fpos' = [fpos EXCEPT ![p] = 0]
    /\ ret' = [ret EXCEPT ![p] = NoRet]
    /\ UNCHANGED <<disk, cache_file, prev, watch, ndisk, ncalls, score_call,
                   select_call>>

Remove(s, i) == SubSeq(s, 1, i - 1) \o SubSeq(s, i + 1, Len(s))

Insert(s, i, x) == SubSeq(s, 1, i) \o <<x>> \o SubSeq(s, i + 1, Len(s))

\* directories change between calls, not while one runs
Quiescent == \A p \in Procs : pc[p] = "idle"

\* a file of directory d is deleted
DeleteFile(d, i) ==
    /\ Quiescent
    /\ ndisk < MaxDiskOps
    /\ disk[d].exists
    /\ i \in DOMAIN disk[d].files
    /\ disk' = [disk EXCEPT ![d].files = Remove(disk[d].files, i)]
    /\ ndisk' = ndisk + 1
    /\ prev' = NoPrev
    /\ watch' = IF /\ watch.state = "stored"
                   /\ d \in Range(watch.dirs)
                   /\ endswith(disk[d].files[i].name, Extension_covmat)
                THEN [watch EXCEPT !.state = "deleted", !.folder = d,
                                   !.name = disk[d].files[i].name]
                ELSE NoWatch
    /\ UNCHANGED <<cache_file, loaded_covmats_database, pc, call, covmat_database,
                   fpos, ret, ncalls, score_call, select_call>>

\* a file appears in directory d, anywhere in the listing order
CreateFile(d, f, i) ==
    /\ Quiescent
    /\ ndisk < MaxDiskOps
    /\ disk[d].exists
    /\ f \notin Range(disk[d].files)
    /\ i \in {0, Len(disk[d].files)}
    /\ disk' = [disk EXCEPT ![d].files = Insert(disk[d].files, i, f)]
    /\ ndisk' = ndisk + 1
    /\ prev' = NoPrev
    /\ watch' = NoWatch
    /\ UNCHANGED <<cache_file, loaded_covmats_database, pc, call, covmat_database,
                   fpos, ret, ncalls, score_call, select_call>>

(***************************************************************************)
(* Spec: one process at a time, over directories that change               *)
(***************************************************************************)
InitialListings(d) ==
    IF d = "d1" THEN {[exists |-> TRUE, files |-> <<F_lowl, F_tie>>],
                      [exists |-> TRUE, files |-> <<F_lowl, F_notes, F_bad>>]}
    ELSE {[exists |-> FALSE, files |-> <<>>],
          [exists |-> TRUE, files |-> <<F_lowl_x, F_subdir>>]}

Init ==
    /\ disk \in {l \in [Dirs -> UNION {InitialListings(d) : d \in Dirs}] :
                    \A d \in Dirs : l[d] \in InitialListings(d)}
    /\ cache_file = [h \in Hashes |-> [exists |-> FALSE, data |-> <<>>]]
    /\ ProcessesFresh
    /\ score_call = NoScoreCall
    /\ select_call = NoSelectCall

\* what a process does around a call of get_covmat_database_at_paths
LoadStep(p) ==
    \/ \E dirs \in DirLists, cached \in BOOLEAN : Call(p, "load", dirs, cached, NoQuery)
    \/ Lookup(p)
    \/ ReadCache(p)
    \/ Scan(p)
    \/ OpenWrite(p)
    \/ Dump(p)
    \/ Restart(p)

Environment ==
    \/ \E i \in 1..MaxListing : DeleteFile("d1", i)
    \/ \E f \in FilesOf("d1") : \E i \in 0..MaxListing : CreateFile("d1", f, i)

Next == LoadStep(1) \/ Environment

Spec == Init /\ [][Next]_vars

(***************************************************************************)
(* SpecBest: one process at a time calling get_best_covmat_ext, the caller *)
(* free to change what it was handed                                       *)
(***************************************************************************)
InitBest ==
    /\ Init
    /\ ~disk["d2"].exists

BestStep(p) ==
    \/ \E cached \in BOOLEAN, q \in MachineQueries : Call(p, "best", <<"d1">>, cached, q)
    \/ Lookup(p)
    \/ ReadCache(p)
    \/ Scan(p)
    \/ OpenWrite(p)
    \/ Dump(p)
    \/ ReplaceField(p)
    \/ MutateParams(p)
    \/ Restart(p)

NextBest == BestStep(1) \/ Environment

SpecBest == InitBest /\ [][NextBest]_vars

(***************************************************************************)
(* SpecConc: two processes load the same directory list with caching       *)
(* enabled, over directories that do not change                            *)
(***************************************************************************)
ConcDirs == <<"d1", "d2">>

ConcListings ==
    {[d \in Dirs |-> [exists |-> TRUE,
                      files |-> IF d = "d1" THEN l ELSE <<F_lowl_x, F_subdir>>]] :
        l \in {<<F_lowl, F_tie>>, <<F_lowl, F_notes>>}}

Prefixes(s) == {SubSeq(s, 1, k) : k \in 0..Len(s)}

\* the file of the fingerprint is absent, or what an earlier writer over the same
\* directories left: the whole stream, or the part written before it was killed
InitConc ==
    /\ disk \in ConcListings
    /\ \E f \in {[exists |-> FALSE, data |-> <<>>]}
                \cup {[exists |-> TRUE, data |-> d] :
                        d \in Prefixes(pickle_dumps(ScanFolders(disk, ConcDirs).val))} :
           cache_file = [h \in Hashes |-> IF h = Hash(ConcDirs) THEN f
                                          ELSE [exists |-> FALSE, data |-> <<>>]]
    /\ ProcessesFresh
    /\ score_call = NoScoreCall
    /\ select_call = NoSelectCall

ConcStep(p) ==
    \/ Call(p, "load", ConcDirs, TRUE, NoQuery)
    \/ Lookup(p)
    \/ ReadCache(p)
    \/ Scan(p)
    \/ OpenWrite(p)
    \/ Dump(p)

NextConc == \E p \in Procs : ConcStep(p)

SpecConc == InitConc /\ [][NextConc]_vars

(***************************************************************************)
(* SpecScore: get_best_score applied to bounded inputs                     *)
(***************************************************************************)
ScoreValues == (0 - 1)..MaxScore

InitScore ==
    /\ MachineOff
    /\ select_call = NoSelectCall
    /\ \E n \in 0..MaxCands :
       \E f \in [1..n -> ScoreValues] :
       \E m \in {None} \cup {Some(v) : v \in ScoreValues} :
           score_call = [covmats |-> [i \in 1..n |-> i], score_func |-> f,
                         min_score |-> m, out |-> None]

ApplyScore ==
    /\ score_call.out = None
    /\ score_call' = [score_call EXCEPT !.out =
           Some(get_best_score(score_call.covmats, score_call.score_func,
                               score_call.min_score))]
    /\ UNCHANGED <<machine_vars, select_call>>

NextScore == ApplyScore

SpecScore == InitScore /\ [][NextScore]_vars

(***************************************************************************)
(* SpecSelect: the ranking stages applied to bounded databases             *)
(***************************************************************************)
\* params_info: sampled parameter -> its renames
ParamsInfos == { (A :> <<>>) @@ (B :> <<>>),
                 (X :> <<A>>) @@ (C :> <<>>),
                 (Z :> <<>>),
                 (A :> <<>>) @@ (B :> <<>>) @@ (C :> <<>>) }

\* likelihoods_info: likelihood -> its aliases
LikelihoodsInfos == { <<>>,
                      (LO :> <<>>),
                      (X :> <<HI>>),
                      (LO :> <<>>) @@ (HI :> <<>>) }

Queries == [params_info : ParamsInfos, likelihoods_info : LikelihoodsInfos,
            random_state : Seeds]

F_dash == File(<<"p", "-", "x", "_", "l", "o">> \o Extension_covmat, TRUE,
               <<"#", "a", " ", "b", "\n">>)
F_glued == File(<<"p", "l", "o">> \o Extension_covmat, TRUE,
                <<"#", " ", "b", " ", "a", "\n">>)

\* the records the scan yields for a few files
SelectRecords ==
    {ParseEntry("d1", f)[1] : f \in {F_lowl, F_tie, F_notes, F_dash, F_glued}}
    \cup {ParseEntry("d2", F_lowl_x)[1]}

SeqsUpTo(S, n) == UNION {[1..k -> S] : k \in 0..n}

InitSelect ==
    /\ MachineOff
    /\ score_call = NoScoreCall
    /\ \E db \in SeqsUpTo(SelectRecords, MaxDb) : \E q \in Queries :
           select_call = [db |-> db, query |-> q, out |-> None]

ApplySelect ==
    /\ select_call.out = None
    /\ select_call' = [select_call EXCEPT !.out =
           Some(get_best_covmat_ext(select_call.db, select_call.query.params_info,
                                    select_call.query.likelihoods_info,
                                    select_call.query.random_state))]
    /\ UNCHANGED <<machine_vars, score_call>>

NextSelect == ApplySelect

SpecSelect == InitSelect /\ [][NextSelect]_vars

(***************************************************************************)
(* Properties of get_best_score (SpecScore)                                *)
(***************************************************************************)
ScoreDone == score_call.out # None

ScoreOut == score_call.out[1]

\* C2: get_best_score applied to an empty candidate sequence returns the
\* empty sequence as a normal result, whatever the score function and
\* whether or not min_score is given; it never fails.
C2_EmptyReturnsEmpty ==
    (ScoreDone /\ score_call.covmats = <<>>) => ScoreOut = Returned(<<>>)

\* C6: for a non-empty candidate sequence and a given minimum M, the result
\* is the empty sequence exactly when every score is at most M (a maximum
\* equal to M is rejected).
C6_EmptyIffMaxAtMost ==
    (ScoreDone /\ score_call.covmats # <<>> /\ score_call.min_score # None) =>
        /\ ScoreOut.exc = "none"
        /\ (ScoreOut.val = <<>>) <=>
               (\A i \in DOMAIN score_call.covmats :
                    score_call.score_func[score_call.covmats[i]]
                        <= score_call.min_score[1])

\* a maximum equal to the given minimum was rejected
C6_Witness ==
    /\ ScoreDone
    /\ Len(score_call.covmats) >= 2
    /\ score_call.min_score = Some(0)
    /\ \E i \in DOMAIN score_call.covmats : score_call.score_func[i] = 0
    /\ \A i \in DOMAIN score_call.covmats : score_call.score_func[i] <= 0
    /\ ScoreOut = Returned(<<>>)

\* the positions of xs at which score function f is maximal
MaximalPositions(xs, f) ==
    {i \in DOMAIN xs : \A j \in DOMAIN xs : f[xs[j]] <= f[xs[i]]}

\* ys lists the elements of xs at the positions of set P, in increasing position
ListsInOrder(ys, xs, P) ==
    /\ Len(ys) = Cardinality(P)
    /\ \E pos \in [DOMAIN ys -> P] :
          /\ \A k \in DOMAIN ys : ys[k] = xs[pos[k]]
          /\ \A k \in DOMAIN ys : \A l \in DOMAIN ys : k < l => pos[k] < pos[l]

\* C13: a non-empty result of get_best_score is exactly the candidates whose
\* score equals the maximum over the input, every tied one included, in the
\* order they have in the input; the call changes neither the input sequence
\* nor the scores of the candidates.
C13_ExactlyMaximalInOrder ==
    [][(score_call.out = None /\ score_call'.out # None) =>
          LET xs == score_call.covmats
              f == score_call.score_func
              out == score_call'.out[1]
          IN /\ score_call'.covmats = xs
             /\ score_call'.score_func = f
             /\ score_call'.min_score = score_call.min_score
             /\ (out.exc = "none" /\ out.val # <<>>) =>
                   ListsInOrder(out.val, xs, MaximalPositions(xs, f))
      ]_vars

\* the first and the last of three candidates tie above the one between them
C13_Witness ==
    /\ ScoreDone
    /\ Len(score_call.covmats) = 3
    /\ score_call.score_func[score_call.covmats[1]]
           = score_call.score_func[score_call.covmats[3]]
    /\ score_call.score_func[score_call.covmats[2]]
           < score_call.score_func[score_call.covmats[1]]
    /\ ScoreOut = Returned(<<score_call.covmats[1], score_call.covmats[3]>>)

(***************************************************************************)
(* Properties of the ranking stages (SpecSelect)                           *)
(***************************************************************************)
SelectDone == select_call.out # None

SelectOut == select_call.out[1]

Separators == {"_", "-", " ", "\t", "\n"}

\* the number of maximal runs of non-separator characters of a name
NameTokens(name) ==
    Cardinality({i \in DOMAIN name :
        name[i] \notin Separators /\ (i = 1 \/ name[i - 1] \in Separators)})

\* the ranking key of a candidate for a query
Key(covmat, q) ==
    << Cardinality({x \in params_renames_of(q.params_info) :
                        \E i \in DOMAIN covmat.params : covmat.params[i] = x}),
       Cardinality({like \in likes_renames_of(q.likelihoods_info) :
                        re_search(like, covmat.name)}),
       0 - Len(covmat.params),
       0 - NameTokens(covmat.name) >>

LexLess(k1, k2) ==
    \E j \in 1..4 : (\A i \in 1..(j - 1) : k1[i] = k2[i]) /\ k1[j] < k2[j]

LexMaximal(db, q) ==
    {i \in DOMAIN db : \A j \in DOMAIN db : ~LexLess(Key(db[i], q), Key(db[j], q))}

\* C5: a returned record is lexicographically maximal over the whole database
\* for the key (shared parameters, matching likelihood patterns, minus the
\* number of declared parameters, minus the number of name tokens), and the
\* random pick is made from exactly the candidates with that maximal key.
C5_WinnerLexMax ==
    (SelectDone /\ SelectOut.val # None) =>
        LET db == select_call.db
            q == select_call.query
        IN /\ \A i \in DOMAIN db : ~LexLess(Key(SelectOut.val[1], q), Key(db[i], q))
           /\ Range(SelectOut.best_p_l_sp_sn) = LexMaximal(db, q)
           /\ SelectOut.origin \in LexMaximal(db, q)
           /\ SelectOut.val[1] = db[SelectOut.origin]

\* two candidates tie on the whole key and a third loses only on name tokens
C5_Witness ==
    /\ SelectDone
    /\ SelectOut.val # None
    /\ Len(SelectOut.best_p_l_sp_sn) = 2
    /\ \E i \in DOMAIN select_call.db :
          LET k == Key(select_call.db[i], select_call.query)
              w == Key(SelectOut.val[1], select_call.query)
          IN k[1] = w[1] /\ k[2] = w[2] /\ k[3] = w[3] /\ k[4] < w[4]

\* no record of db declares a parameter of the target alias set of query q
NoParameterOverlap(db, q) ==
    \A i \in DOMAIN db : \A k \in DOMAIN db[i].params :
        db[i].params[k] \notin params_renames_of(q.params_info)

\* C11: when the database is non-empty and no candidate declares any name of
\* the target alias set, the result is the "none" sentinel, returned normally,
\* and neither the likelihood stage nor the simplicity stages have run.
C11_NoOverlapReturnsNone ==
    (/\ SelectDone
     /\ select_call.db # <<>>
     /\ NoParameterOverlap(select_call.db, select_call.query)) =>
        /\ SelectOut.exc = "none"
        /\ SelectOut.val = None
        /\ SelectOut.best_p = <<>>
        /\ SelectOut.best_p_l = <<>>
        /\ SelectOut.best_p_l_sp = <<>>
        /\ SelectOut.best_p_l_sp_sn = <<>>

\* several candidates, each with declared parameters and a name matching a
\* target likelihood, none sharing a parameter with the targets
C11_Witness ==
    /\ SelectDone
    /\ Len(select_call.db) >= 2
    /\ NoParameterOverlap(select_call.db, select_call.query)
    /\ \A i \in DOMAIN select_call.db :
          /\ select_call.db[i].params # <<>>
          /\ Key(select_call.db[i], select_call.query)[2] >= 1
    /\ SelectOut.val = None

\* the name of record i of db matches no likelihood alias pattern of query q
MatchesNoLike(db, q, i) == Key(db[i], q)[2] = 0

\* C12: the likelihood stage never eliminates every candidate: its output is
\* non-empty whenever its input is, and when no parameter-matched candidate's
\* name matches any likelihood alias pattern (the target likelihood set may be
\* empty) its output is the whole parameter-matched sequence, in the same order.
C12_LikesStageKeepsAll ==
    (SelectDone /\ SelectOut.best_p # <<>>) =>
        /\ SelectOut.exc = "none"
        /\ SelectOut.best_p_l # <<>>
        /\ (\A k \in DOMAIN SelectOut.best_p :
               MatchesNoLike(select_call.db, select_call.query, SelectOut.best_p[k]))
           => SelectOut.best_p_l = SelectOut.best_p

\* likelihoods are targeted, no name matches one, and the parameter stage had
\* kept several candidates and dropped one
C12_Witness ==
    /\ SelectDone
    /\ select_call.query.likelihoods_info # <<>>
    /\ Len(SelectOut.best_p) >= 2
    /\ Len(SelectOut.best_p) < Len(select_call.db)
    /\ \A k \in DOMAIN SelectOut.best_p :
          MatchesNoLike(select_call.db, select_call.query, SelectOut.best_p[k])
    /\ SelectOut.best_p_l = SelectOut.best_p

\* the records of db stand for different files
DistinctFiles(db) ==
    \A i \in DOMAIN db : \A j \in DOMAIN db :
        i # j => <<db[i].folder, db[i].name>> # <<db[j].folder, db[j].name>>

\* the database of the same files enumerated in the order pi
Reordered(db, pi) == [i \in DOMAIN db |-> db[pi[i]]]

\* C15: for a fixed seed, fixed targets and fixed files, the record returned
\* does not depend on the order in which the scan enumerated the files: the
\* call on the same records in any other order returns the same file, also
\* when several candidates survive every stage.
C15_EnumerationOrderIrrelevant ==
    (SelectDone /\ DistinctFiles(select_call.db)) =>
        \A pi \in Permutations(DOMAIN select_call.db) :
            LET other == get_best_covmat_ext(Reordered(select_call.db, pi),
                             select_call.query.params_info,
                             select_call.query.likelihoods_info,
                             select_call.query.random_state)
            IN other.exc = SelectOut.exc /\ other.val = SelectOut.val

\* sequence ys is non-empty and holds only elements of sequence xs
NonEmptyWithin(ys, xs) == ys # <<>> /\ Range(ys) \subseteq Range(xs)

\* C17: the result is the "none" sentinel exactly when the database is empty
\* or no candidate shares a parameter with the target alias set; otherwise
\* every later stage yields a non-empty subset of the stage before it, the
\* random pick is made over a non-empty set, and the result equals one record
\* of the database. The call never fails.
C17_NoneIffEmptyOrNoOverlap ==
    SelectDone =>
        LET db == select_call.db
            out == SelectOut
        IN /\ out.exc = "none"
           /\ (out.val = None) <=>
                  (db = <<>> \/ NoParameterOverlap(db, select_call.query))
           /\ out.val # None =>
                  /\ NonEmptyWithin(out.best_p, Refs(db))
                  /\ NonEmptyWithin(out.best_p_l, out.best_p)
                  /\ NonEmptyWithin(out.best_p_l_sp, out.best_p_l)
                  /\ NonEmptyWithin(out.best_p_l_sp_sn, out.best_p_l_sp)
                  /\ out.origin \in Range(out.best_p_l_sp_sn)
                  /\ \E i \in DOMAIN db : out.val[1] = db[i]

\* a record is returned after the parameter stage dropped a candidate and a
\* later stage dropped another
C17_Witness ==
    /\ SelectDone
    /\ SelectOut.val # None
    /\ Len(SelectOut.best_p) < Len(select_call.db)
    /\ Len(SelectOut.best_p_l_sp_sn) < Len(SelectOut.best_p)

(***************************************************************************)
(* Properties of the database cache (Spec, SpecBest, SpecConc)             *)
(***************************************************************************)
HeaderMarked(f) ==
    /\ f.readable
    /\ \E i \in DOMAIN f.line :
          f.line[i] = "#" /\ \A j \in 1..(i - 1) : IsSpace(f.line[j])

\* the records of a complete scan: per directory in list order, per entry in
\* listing order, one record for each readable entry with a header marker
RECURSIVE FreshRecords(_, _)
FreshRecords(dsk, dirs) ==
    IF dirs = <<>> THEN <<>>
    ELSE LET d == Head(dirs)
             marked == SelectSeq(dsk[d].files, HeaderMarked)
         IN [i \in DOMAIN marked |-> ParseEntry(d, marked[i])[1]]
            \o FreshRecords(dsk, Tail(dirs))

HasRecordFor(db, folder, name) ==
    \E i \in DOMAIN db : db[i].folder = folder /\ db[i].name = name

\* C1: after a cached load has stored N records for the N matrix files on disk,
\* deleting one matrix file makes the next cached load of the same directory
\* list rebuild from disk, so that its result holds no record for the deleted
\* file, whatever loads came before, in this process or another.
C1_DeletionForcesRebuild ==
    \A p \in Procs :
        (ret[p].watched /\ watch.state = "checked") =>
            /\ ret[p].exc = "none"
            /\ ret[p].via = "rebuild"
            /\ ~HasRecordFor(ret[p].val, watch.folder, watch.name)

\* C3: a load of a directory list with a missing directory completes without
\* failure and returns the records of the directories that exist, with
\* caching enabled or disabled.
C3_MissingDirTolerated ==
    \A p \in Procs :
        (ret[p].exc # "unset" /\ \E d \in Range(call[p].dirs) : ~disk[d].exists) =>
            /\ ret[p].exc = "none"
            /\ ret[p].via = "rebuild" =>
                  ret[p].val = FreshRecords(disk,
                                   SelectSeq(call[p].dirs, LAMBDA d : disk[d].exists))

\* the persisted file can be read, deserializes, and holds as many records as
\* there are files with the matrix extension in the directories now
PersistedValid(dsk, file, dirs) ==
    /\ file.exists
    /\ \A d \in Range(dirs) : dsk[d].exists
    /\ \E n \in 0..Len(file.data) :
          /\ n + 2 <= Len(file.data)
          /\ file.data[1] = PROTO
          /\ \A i \in 2..(n + 1) : file.data[i].op = "REC"
          /\ file.data[n + 2] = STOP
          /\ n = Cardinality(MatrixFilesOnDisk(dsk, dirs))

PersistedRecords(dsk, file, dirs) ==
    [i \in 1..Cardinality(MatrixFilesOnDisk(dsk, dirs)) |-> file.data[i + 1].rec]

\* C7: with caching enabled and no usable in-process entry, the persisted file
\* is returned exactly when it deserializes and its record count equals the
\* number of matrix files now on disk; otherwise the call goes on to a full
\* rebuild, whose database is the complete scan at that moment and is what the
\* call stores and returns.
C7_PersistedOnlyIfValid ==
    [][\A p \in Procs :
        LET h == Hash(call[p].dirs) IN
        /\ (pc[p] = "read" /\ pc'[p] # "read") =>
              IF PersistedValid(disk, cache_file[h], call[p].dirs)
              THEN LET db == PersistedRecords(disk, cache_file[h], call[p].dirs) IN
                   /\ pc'[p] = "idle"
                   /\ ret'[p].exc = "none" /\ ret'[p].via = "file"
                   /\ call[p].kind = "load" => ret'[p].val = db
                   /\ loaded_covmats_database'[p][h] = Some(db)
              ELSE /\ pc'[p] = "scan"
                   /\ loaded_covmats_database' = loaded_covmats_database
        /\ (pc[p] = "scan" /\ pc'[p] = "open") =>
              covmat_database'[p] = FreshRecords(disk, call[p].dirs)
        /\ (pc[p] = "dump" /\ pc'[p] = "idle" /\ ret'[p].exc = "none") =>
              /\ call[p].kind = "load" => ret'[p].val = covmat_database[p]
              /\ loaded_covmats_database'[p][h] = Some(covmat_database[p])
              /\ cache_file'[h].data = pickle_dumps(covmat_database[p])
      ]_vars

\* a persisted file was accepted on its record count although the directory
\* contents had changed since it was written
C7_Witness ==
    \E p \in Procs :
        /\ ret[p].exc = "none"
        /\ ret[p].via = "file"
        /\ call[p].kind = "load"
        /\ ret[p].val # <<>>
        /\ ret[p].val # FreshRecords(disk, call[p].dirs)

\* C9: at every point of a rebuild, interrupted or not, the file at the
\* fingerprint path is absent or holds one complete serialized sequence.
C9_NeverPartial ==
    \A h \in Hashes :
        cache_file[h].exists =>
            LET loaded == pickle_load(cache_file[h].data) IN
            /\ loaded.exc = "none"
            /\ cache_file[h].data = pickle_dumps(loaded.val)

\* the records the scan yields for the files that may appear in the directories
ParsedRecords ==
    UNION {{ParseEntry(d, f)[1] : f \in {g \in FilesOf(d) : HeaderMarked(g)}} :
           d \in Dirs}

\* C4: the record best-match returns is a copy: whatever the caller does to it
\* (replacing a field, changing its list of declared parameters), the records
\* of the in-process database stay exactly as they were parsed.
C4_CachedRecordsAsParsed ==
    \A p \in Procs : \A h \in Hashes :
        loaded_covmats_database[p][h] # None =>
            \A i \in DOMAIN loaded_covmats_database[p][h][1] :
                loaded_covmats_database[p][h][1][i] \in ParsedRecords

\* C8: a best-match call that repeats the previous one (same directory list,
\* targets, seed and caching flag, directory contents unchanged in between)
\* returns the same result, however it is served.
C8_RepeatedCallSameResult ==
    [][\A p \in Procs :
        (/\ pc[p] # "idle" /\ pc'[p] = "idle" /\ ret'[p].exc # "unset"
         /\ call[p].kind = "best"
         /\ prev.valid
         /\ prev.dirs = call[p].dirs
         /\ prev.cached = call[p].cached
         /\ prev.query = call[p].query)
        => (ret'[p].exc = prev.exc /\ ret'[p].val = prev.val)
      ]_vars

\* C10: for every interleaving of two processes loading the same directory
\* list with caching enabled over unchanged directories, every call completes
\* and returns the complete scan, and once all are done the file of the
\* fingerprint holds that one complete sequence.
C10_ConcurrentLoadsComplete ==
    LET expected == FreshRecords(disk, ConcDirs)
        h == Hash(ConcDirs)
    IN /\ \A p \in Procs :
            /\ ret[p].exc # "unset" => (ret[p].exc = "none" /\ ret[p].val = expected)
            /\ loaded_covmats_database[p][h] # None =>
                   loaded_covmats_database[p][h][1] = expected
            /\ pc[p] # "idle" => ENABLED ConcStep(p)
       /\ (Quiescent /\ \E p \in Procs : ret[p].exc # "unset") =>
              /\ cache_file[h].exists
              /\ cache_file[h].data = pickle_dumps(expected)

\* both processes rebuilt the database and wrote the same file
C10_Witness ==
    /\ Quiescent
    /\ \A p \in Procs : ret[p].exc = "none" /\ ret[p].via = "rebuild"

\* C14: a process with an empty in-process mapping that reads the persisted
\* file while it holds the database a rebuild persisted for the directories as
\* they are now accepts it: the call returns the persisted database without
\* scanning. This for every directory content, header-marked files without
\* the matrix extension and unmarked files with it included.
C14_FreshCacheAccepted ==
    [][\A p \in Procs :
        LET h == Hash(call[p].dirs)
            fresh == FreshRecords(disk, call[p].dirs)
        IN (/\ pc[p] = "read"
            /\ pc'[p] # "read"
            /\ loaded_covmats_database[p][h] = None
            /\ \A d \in Range(call[p].dirs) : disk[d].exists
            /\ cache_file[h].exists
            /\ cache_file[h].data = pickle_dumps(fresh))
           => /\ pc'[p] = "idle"
              /\ ret'[p].exc = "none"
              /\ ret'[p].via = "file"
              /\ ret'[p].val = fresh
      ]_vars

\* C16: a load with caching disabled never reads and never changes cache
\* state: no step of it changes the in-process mapping or a persisted file, it
\* never reaches the reading or the writing of the file, and what it returns
\* is the scan of the directories as they are (the scan's own failure when a
\* directory is missing), whatever the mapping and the file hold.
C16_UncachedLoadIsolated ==
    [][\A p \in Procs :
        (pc[p] # "idle" /\ ~call[p].cached) =>
            /\ loaded_covmats_database' = loaded_covmats_database
            /\ cache_file' = cache_file
            /\ pc'[p] \in {"lookup", "scan", "idle"}
            /\ pc'[p] = "idle" =>
                  IF \A d \in Range(call[p].dirs) : disk[d].exists
                  THEN /\ ret'[p].exc = "none"
                       /\ ret'[p].via = "rebuild"
                       /\ call[p].kind = "load" =>
                             ret'[p].val = FreshRecords(disk, call[p].dirs)
                  ELSE ret'[p].exc = "FileNotFoundError"
      ]_vars

\* a load with caching disabled returned the scan while the in-process mapping
\* and the persisted file of the same fingerprint both held another database
C16_Witness ==
    \E p \in Procs :
        LET h == Hash(call[p].dirs) IN
        /\ pc[p] = "idle"
        /\ call[p].kind = "load"
        /\ ~call[p].cached
        /\ ret[p].exc = "none"
        /\ loaded_covmats_database[p][h] # None
        /\ loaded_covmats_database[p][h][1] # ret[p].val
        /\ cache_file[h].exists
        /\ cache_file[h].data # pickle_dumps(ret[p].val)

====
